---- MODULE Spec2Model ----
(***************************************************************************)
(* Model of multi_stop_route_cost.py: a QGIS console script that reads the *)
(* stops of a point layer, sorts them by an order field, asks the          *)
(* shortest-path algorithm for the path between each consecutive pair,     *)
(* merges the per-segment layers and adds the merged layer to the project. *)
(*                                                                         *)
(* The script is a straight line of statements; `pc` is the position of    *)
(* control.  The two processing.run calls are the points where the script  *)
(* blocks on the external algorithm, so each is split into the call and    *)
(* the algorithm's outcome (a result, or an exception that is not caught). *)
(* Stops are point features, as the configuration comment of the script    *)
(* requires ("point layer containing the stops").                          *)
(***************************************************************************)
EXTENDS Integers, Sequences, FiniteSets, TLC

\* ---------------------------------------------------------------- bounds
MaxStops == 3

\* ------------------------------------------------------- configuration
network_layer_name == "my_road_network"
stops_layer_name == "my_stops_points"
order_field_name == "order_id"
STRATEGY == 1
SPEED_FIELD == "cost"
OutputName == "Multi-Stop Route (from Layer)"

\* ----------------------------------------------------- input universes
\* Values an order field can hold: numbers, or text.  Python orders numbers
\* among themselves and text among itself; comparing a number with text
\* raises TypeError.
OrderKeys ==
    {[kind |-> "int", val |-> 1], [kind |-> "int", val |-> 2],
     [kind |-> "int", val |-> 3], [kind |-> "str", val |-> 1]}

Points == {<<0, 0>>, <<10, 0>>, <<5, 5>>}

AuthIds == {"EPSG:4326", "EPSG:2180"}

\* Schemas the stops layer can have: with and without the order field.
Schemas == {<<"name", "order_id">>, <<"order_id">>, <<"name">>}

\* The features getFeatures() can yield: fid is the position in read order.
StopLists ==
    UNION {{[k \in 1..n |-> [fid |-> k, attr |-> ks[k], point |-> ps[k]]] :
               ks \in [1..n -> OrderKeys], ps \in [1..n -> Points]} :
           n \in 0..MaxStops}

StopsLayers ==
    {[name |-> stops_layer_name, fields |-> f, crs |-> c] :
        f \in Schemas, c \in AuthIds}

NetworkLayers == {[name |-> network_layer_name, crs |-> c] : c \in AuthIds}

\* ------------------------------------------------------------- helpers
\* QgsFields.indexFromName: 0-based index of the field, -1 when absent.
IndexFromName(fields, name) ==
    IF \E k \in 1..Len(fields) : fields[k] = name
    THEN (CHOOSE k \in 1..Len(fields) :
             fields[k] = name /\ \A j \in 1..(k - 1) : fields[j] # name) - 1
    ELSE -1

\* The key function of the sort: f[order_field_name].
KeyOf(f) == f.attr

\* Python's `<` on two key values; defined only for values of one kind.
KeyLess(a, b) == a.kind = b.kind /\ a.val < b.val

\* list.sort raises TypeError exactly when it has to compare two values of
\* different kinds, which it must whenever the list holds both kinds.
Sortable(feats) ==
    \A a, b \in 1..Len(feats) : KeyOf(feats[a]).kind = KeyOf(feats[b]).kind

InsertAt(s, p, f) ==
    [k \in 1..(Len(s) + 1) |->
        IF k < p THEN s[k] ELSE IF k = p THEN f ELSE s[k - 1]]

\* Mutation of SortByKey: ties are placed before the equal elements.
RECURSIVE SortByKeyUnstable(_)
SortByKeyUnstable(feats) ==
    IF feats = <<>> THEN <<>>
    ELSE LET n == Len(feats)
             s == SortByKeyUnstable(SubSeq(feats, 1, n - 1))
             f == feats[n]
             after == {k \in 1..Len(s) : ~KeyLess(KeyOf(s[k]), KeyOf(f))}
             p == IF after = {} THEN Len(s) + 1
                  ELSE CHOOSE k \in after : \A j \in after : k <= j
         IN  InsertAt(s, p, f)

\* stops_features.sort(key=...): ascending and stable.  Each feature, in list
\* order, goes before the first already placed feature whose key is strictly
\* greater, hence after every feature with an equal key.
RECURSIVE SortByKey(_)
SortByKey(feats) ==
    IF feats = <<>> THEN <<>>
    ELSE LET n == Len(feats)
             s == SortByKey(SubSeq(feats, 1, n - 1))
             f == feats[n]
             after == {k \in 1..Len(s) : KeyLess(KeyOf(f), KeyOf(s[k]))}
             p == IF after = {} THEN Len(s) + 1
                  ELSE CHOOSE k \in after : \A j \in after : k <= j
         IN  InsertAt(s, p, f)

\* The extraction loop: (point.x(), point.y()) of every feature, in order.
Coords(feats) ==
    [k \in 1..Len(feats) |-> <<feats[k].point[1], feats[k].point[2]>>]

\* Mutation of EnoughStops: a single stop is let through.
EnoughStopsOne(coords) == ~(Len(coords) < 1)

\* The guard of line 65, negated: the script goes on.
EnoughStops(coords) == ~(Len(coords) < 2)

\* Mutation of EndCoords: the end of the pair is the stop after the next.
EndCoordsSkip(coords, n) ==
    IF n + 3 <= Len(coords) THEN coords[n + 3] ELSE coords[n + 2]

\* start_coords / end_coords of iteration n (n is Python's 0-based i).
StartCoords(coords, n) == coords[n + 1]
EndCoords(coords, n) == coords[n + 2]

\* f"{x},{y} [{authid}]": the text keeps the two numbers and the CRS id.
PointStr(c, authid) == [x |-> c[1], y |-> c[2], crs |-> authid]

\* Mutation of MoreSegments: the range is one value short.
MoreSegmentsShort(coords, n) == n < Len(coords) - 2

\* range(len(sorted_stops_coords) - 1) still has the value n.
MoreSegments(coords, n) == n < Len(coords) - 1

\* Mutation of MergeLayers: the segment list is reversed on the way.
MergeLayersReversed(segs) == [k \in 1..Len(segs) |-> segs[Len(segs) + 1 - k]]

\* The "LAYERS" entry of merge_params.
MergeLayers(segs) == segs

\* ---------------------------------------------------------------- state
VARIABLES
    pc,                  \* position of control in the script
    stops_layer,         \* <<>> or <<the layer>>, as mapLayersByName returns
    network_layer,       \* <<>> or <<the layer>>
    layer_features,      \* what getFeatures() yielded, in read order
    features_read,       \* TRUE once line 46 has run
    stops_features,      \* the list that is sorted in place
    sorted_stops_coords,
    i,                   \* loop variable of the segment loop
    requests,            \* params of every shortest-path call, in call order
    engine_answers,      \* layers the path algorithm returned, in order
    route_segments,
    merge_params,        \* <<>> or <<params of the merge call>>
    merged_result,       \* <<>> or <<layer returned by the merge>>
    map_layers_added,    \* layers handed to QgsProject.addMapLayer
    printed,             \* console output
    err,                 \* "" or the exception that ended the script
    err_name,            \* names quoted in the exception message
    err_segment,         \* segment indexes carried by the exception
    trace                \* history of the script's externally visible steps

vars == <<pc, stops_layer, network_layer, layer_features, features_read,
          stops_features, sorted_stops_coords, i, requests, engine_answers,
          route_segments, merge_params, merged_result, map_layers_added,
          printed, err, err_name, err_segment, trace>>

Init ==
    /\ pc = "find_stops"
    /\ stops_layer = <<>>
    /\ network_layer = <<>>
    /\ layer_features = <<>>
    /\ features_read = FALSE
    /\ stops_features = <<>>
    /\ sorted_stops_coords = <<>>
    /\ i = 0
    /\ requests = <<>>
    /\ engine_answers = <<>>
    /\ route_segments = <<>>
    /\ merge_params = <<>>
    /\ merged_result = <<>>
    /\ map_layers_added = <<>>
    /\ printed = <<>>
    /\ err = ""
    /\ err_name = <<>>
    /\ err_segment = {}
    /\ trace = <<>>

Raise(kind, names, segs) ==
    /\ pc' = "failed"
    /\ err' = kind
    /\ err_name' = names
    /\ err_segment' = segs

NoRaise == UNCHANGED <<err, err_name, err_segment>>

Say(text, n) == printed' = Append(printed, [text |-> text, n |-> n])

Log(ev, n) == trace' = Append(trace, [ev |-> ev, n |-> n])

\* --------------------------------------------------------------- actions
\* Lines 28-31.
FindStopsLayer ==
    /\ pc = "find_stops"
    /\ \E found \in {<<>>} \cup {<<l>> : l \in StopsLayers} :
          /\ stops_layer' = found
          /\ IF found = <<>>
             THEN Raise("StopsLayerNotFound", <<stops_layer_name>>, {})
             ELSE pc' = "find_network" /\ NoRaise
    /\ UNCHANGED <<network_layer, layer_features, features_read,
                   stops_features, sorted_stops_coords, i, requests,
                   engine_answers, route_segments, merge_params,
                   merged_result, map_layers_added, printed, trace>>

\* Lines 34-37.
FindNetworkLayer ==
    /\ pc = "find_network"
    /\ \E found \in {<<>>} \cup {<<l>> : l \in NetworkLayers} :
          /\ network_layer' = found
          /\ IF found = <<>>
             THEN Raise("NetworkLayerNotFound", <<network_layer_name>>, {})
             ELSE pc' = "check_field" /\ NoRaise
    /\ UNCHANGED <<stops_layer, layer_features, features_read,
                   stops_features, sorted_stops_coords, i, requests,
                   engine_answers, route_segments, merge_params,
                   merged_result, map_layers_added, printed, trace>>

\* Mutation of CheckOrderField: the schema is not looked at.
CheckOrderFieldNever ==
    /\ pc = "check_field"
    /\ pc' = "read"
    /\ NoRaise
    /\ UNCHANGED <<stops_layer, network_layer, layer_features, features_read,
                   stops_features, sorted_stops_coords, i, requests,
                   engine_answers, route_segments, merge_params,
                   merged_result, map_layers_added, printed, trace>>

\* Lines 40-43.
CheckOrderField ==
    /\ pc = "check_field"
    /\ IF IndexFromName(stops_layer[1].fields, order_field_name) = -1
       THEN Raise("OrderFieldNotFound",
                  <<order_field_name, stops_layer_name>>, {})
       ELSE pc' = "read" /\ NoRaise
    /\ UNCHANGED <<stops_layer, network_layer, layer_features, features_read,
                   stops_features, sorted_stops_coords, i, requests,
                   engine_answers, route_segments, merge_params,
                   merged_result, map_layers_added, printed, trace>>

\* Line 46.
ReadFeatures ==
    /\ pc = "read"
    /\ \E feats \in StopLists :
          /\ layer_features' = feats
          /\ stops_features' = feats
    /\ features_read' = TRUE
    /\ pc' = "sort"
    /\ Log("load", Len(stops_features'))
    /\ NoRaise
    /\ UNCHANGED <<stops_layer, network_layer, sorted_stops_coords, i,
                   requests, engine_answers, route_segments, merge_params,
                   merged_result, map_layers_added, printed>>

\* Mutation of SortStops: the except clause prints and does not re-raise.
SortStopsSwallow ==
    /\ pc = "sort"
    /\ IF Sortable(stops_features)
       THEN /\ stops_features' = SortByKey(stops_features)
            /\ Log("sort", Len(stops_features))
            /\ UNCHANGED printed
       ELSE /\ Say("Could not sort features", 0)
            /\ UNCHANGED <<stops_features, trace>>
    /\ pc' = "extract"
    /\ NoRaise
    /\ UNCHANGED <<stops_layer, network_layer, layer_features, features_read,
                   sorted_stops_coords, i, requests, engine_answers,
                   route_segments, merge_params, merged_result,
                   map_layers_added>>

\* Lines 49-55.  When the sort raises, the list is left in an order the
\* script never looks at again; it is kept as read.
SortStops ==
    /\ pc = "sort"
    /\ IF Sortable(stops_features)
       THEN /\ stops_features' = SortByKey(stops_features)
            /\ pc' = "extract"
            /\ Log("sort", Len(stops_features))
            /\ NoRaise
            /\ UNCHANGED printed
       ELSE /\ Say("Could not sort features", 0)
            /\ Raise("SortError", <<>>, {})
            /\ UNCHANGED <<stops_features, trace>>
    /\ UNCHANGED <<stops_layer, network_layer, layer_features, features_read,
                   sorted_stops_coords, i, requests, engine_answers,
                   route_segments, merge_params, merged_result,
                   map_layers_added>>

\* Lines 58-62.
ExtractCoords ==
    /\ pc = "extract"
    /\ sorted_stops_coords' = Coords(stops_features)
    /\ pc' = "check_count"
    /\ NoRaise
    /\ UNCHANGED <<stops_layer, network_layer, layer_features, features_read,
                   stops_features, i, requests, engine_answers,
                   route_segments, merge_params, merged_result,
                   map_layers_added, printed, trace>>

\* Lines 65-80.
CheckStopCount ==
    /\ pc = "check_count"
    /\ IF EnoughStops(sorted_stops_coords)
       THEN /\ printed' = printed \o
                   <<[text |-> "Found and sorted stops",
                      n |-> Len(sorted_stops_coords)],
                     [text |-> "Starting calculation", n |-> 0]>>
            /\ route_segments' = <<>>
            /\ i' = 0
            /\ pc' = "loop"
            /\ NoRaise
       ELSE /\ Raise("FewerThanTwoStops", <<>>, {})
            /\ UNCHANGED <<printed, route_segments, i>>
    /\ UNCHANGED <<stops_layer, network_layer, layer_features, features_read,
                   stops_features, sorted_stops_coords, requests,
                   engine_answers, merge_params, merged_result,
                   map_layers_added, trace>>

\* Lines 83-103, up to the call of the shortest-path algorithm.
IssueRequest ==
    /\ pc = "loop"
    /\ MoreSegments(sorted_stops_coords, i)
    /\ LET authid == stops_layer[1].crs
           params ==
               [INPUT |-> network_layer[1].name,
                STRATEGY |-> STRATEGY,
                SPEED_FIELD |-> SPEED_FIELD,
                START_POINT |->
                    PointStr(StartCoords(sorted_stops_coords, i), authid),
                END_POINT |->
                    PointStr(EndCoords(sorted_stops_coords, i), authid)]
       IN  requests' = Append(requests, params)
    /\ Say("Calculating segment", i + 1)
    /\ Log("request", i)
    /\ pc' = "await"
    /\ NoRaise
    /\ UNCHANGED <<stops_layer, network_layer, layer_features, features_read,
                   stops_features, sorted_stops_coords, i, engine_answers,
                   route_segments, merge_params, merged_result,
                   map_layers_added>>

\* Lines 103-104: the algorithm returns a new memory layer; it is appended
\* and the loop goes to its next value.
EngineReturn ==
    /\ pc = "await"
    /\ LET answer == [call |-> Len(requests),
                      from |-> requests[Len(requests)].START_POINT,
                      to |-> requests[Len(requests)].END_POINT]
       IN  /\ engine_answers' = Append(engine_answers, answer)
           /\ route_segments' = Append(route_segments, answer)
    /\ i' = i + 1
    /\ Log("segment", i)
    /\ pc' = "loop"
    /\ NoRaise
    /\ UNCHANGED <<stops_layer, network_layer, layer_features, features_read,
                   stops_features, sorted_stops_coords, requests,
                   merge_params, merged_result, map_layers_added, printed>>

\* Mutation of EngineNoPath: the exception is caught and the pair skipped.
EngineNoPathSkip ==
    /\ pc = "await"
    /\ err' = "PathNotFound"
    /\ i' = i + 1
    /\ pc' = "loop"
    /\ UNCHANGED <<err_name, err_segment>>
    /\ UNCHANGED <<stops_layer, network_layer, layer_features, features_read,
                   stops_features, sorted_stops_coords, requests,
                   engine_answers, route_segments, merge_params,
                   merged_result, map_layers_added, printed, trace>>

\* Line 103: the algorithm finds no route and raises.  Nothing catches the
\* exception; it is the algorithm's own, built from params, which hold the
\* two points and not the loop index.
EngineNoPath ==
    /\ pc = "await"
    /\ Raise("PathNotFound", <<>>, {})
    /\ UNCHANGED <<stops_layer, network_layer, layer_features, features_read,
                   stops_features, sorted_stops_coords, i, requests,
                   engine_answers, route_segments, merge_params,
                   merged_result, map_layers_added, printed, trace>>

\* Mutation of MergeCall: the loop can be left while pairs remain.
MergeCallEarly ==
    /\ pc = "loop"
    /\ route_segments # <<>>
    /\ printed' = printed \o
           <<[text |-> "calculation finished", n |-> 0],
             [text |-> "Merging route segments", n |-> 0]>>
    /\ merge_params' =
           <<[LAYERS |-> MergeLayers(route_segments),
              CRS |-> network_layer[1].crs]>>
    /\ Log("merge", Len(route_segments))
    /\ pc' = "await_merge"
    /\ NoRaise
    /\ UNCHANGED <<stops_layer, network_layer, layer_features, features_read,
                   stops_features, sorted_stops_coords, i, requests,
                   engine_answers, route_segments, merged_result,
                   map_layers_added>>

\* Lines 106-121 up to the call of the merge algorithm, and lines 131-132.
MergeCall ==
    /\ pc = "loop"
    /\ ~MoreSegments(sorted_stops_coords, i)
    /\ IF route_segments # <<>>
       THEN /\ printed' = printed \o
                   <<[text |-> "calculation finished", n |-> 0],
                     [text |-> "Merging route segments", n |-> 0]>>
            /\ merge_params' =
                   <<[LAYERS |-> MergeLayers(route_segments),
                      CRS |-> network_layer[1].crs]>>
            /\ Log("merge", Len(route_segments))
            /\ pc' = "await_merge"
       ELSE /\ printed' = printed \o
                   <<[text |-> "calculation finished", n |-> 0],
                     [text |-> "No route segments were calculated", n |-> 0]>>
            /\ UNCHANGED <<merge_params, trace>>
            /\ pc' = "done"
    /\ NoRaise
    /\ UNCHANGED <<stops_layer, network_layer, layer_features, features_read,
                   stops_features, sorted_stops_coords, i, requests,
                   engine_answers, route_segments, merged_result,
                   map_layers_added>>

\* Line 121: native:mergevectorlayers returns one layer holding the features
\* of the input layers, layer after layer, in the CRS asked for.
MergeReturn ==
    /\ pc = "await_merge"
    /\ merged_result' = <<[name |-> "Merged",
                           parts |-> merge_params[1].LAYERS,
                           crs |-> merge_params[1].CRS]>>
    /\ Log("merged", Len(merge_params[1].LAYERS))
    /\ pc' = "publish"
    /\ NoRaise
    /\ UNCHANGED <<stops_layer, network_layer, layer_features, features_read,
                   stops_features, sorted_stops_coords, i, requests,
                   engine_answers, route_segments, merge_params,
                   map_layers_added, printed>>

\* Line 121: the merge algorithm raises; nothing catches it.
MergeFail ==
    /\ pc = "await_merge"
    /\ Raise("MergeFailed", <<>>, {})
    /\ UNCHANGED <<stops_layer, network_layer, layer_features, features_read,
                   stops_features, sorted_stops_coords, i, requests,
                   engine_answers, route_segments, merge_params,
                   merged_result, map_layers_added, printed, trace>>

\* Lines 124-130.
Publish ==
    /\ pc = "publish"
    /\ LET final_route_layer == [merged_result[1] EXCEPT !.name = OutputName]
       IN  map_layers_added' = Append(map_layers_added, final_route_layer)
    /\ Say("Multi-stop route created", 0)
    /\ Log("publish", Len(map_layers_added'))
    /\ pc' = "done"
    /\ NoRaise
    /\ UNCHANGED <<stops_layer, network_layer, layer_features, features_read,
                   stops_features, sorted_stops_coords, i, requests,
                   engine_answers, route_segments, merge_params,
                   merged_result>>

Next ==
    \/ FindStopsLayer
    \/ FindNetworkLayer
    \/ CheckOrderField
    \/ ReadFeatures
    \/ SortStops
    \/ ExtractCoords
    \/ CheckStopCount
    \/ IssueRequest
    \/ EngineReturn
    \/ EngineNoPath
    \/ MergeCall
    \/ MergeReturn
    \/ MergeFail
    \/ Publish

Spec == Init /\ [][Next]_vars

\* ------------------------------------------------------------ properties
NStops == Len(layer_features)

\* The text the script builds for the position of sorted stop k (1-based).
StopPointStr(k) ==
    [x |-> stops_features[k].point[1], y |-> stops_features[k].point[2],
     crs |-> stops_layer[1].crs]

\* Line 62 has run for every feature.
Loaded ==
    \/ pc \in {"check_count", "loop", "await", "await_merge", "publish", "done"}
    \/ pc = "failed" /\ err \in {"FewerThanTwoStops", "PathNotFound", "MergeFailed"}

\* The segment loop has run to its end.
LoopFinished ==
    \/ pc \in {"await_merge", "publish", "done"}
    \/ pc = "failed" /\ err = "MergeFailed"

\* Control is at the `if route_segments` of line 110, or beyond it.
AtMergeStage ==
    \/ pc = "loop" /\ ~(i < Len(sorted_stops_coords) - 1)
    \/ LoopFinished

\* C1: with N >= 2 stops and an answer to every request, the loop ends with
\* exactly N-1 requests and N-1 segments; segment k is the answer to request
\* k, which goes from sorted stop k to sorted stop k+1, so each segment ends
\* where the next one starts.
C1_SegmentsFollowStops ==
    (LoopFinished /\ NStops >= 2) =>
        /\ Len(requests) = NStops - 1
        /\ Len(route_segments) = NStops - 1
        /\ \A k \in 1..(NStops - 1) :
              /\ requests[k].START_POINT = StopPointStr(k)
              /\ requests[k].END_POINT = StopPointStr(k + 1)
              /\ route_segments[k].call = k
              /\ route_segments[k].from = requests[k].START_POINT
              /\ route_segments[k].to = requests[k].END_POINT
        /\ \A k \in 1..(NStops - 2) :
              route_segments[k].to = route_segments[k + 1].from

C1_Witness ==
    /\ pc = "done"
    /\ Len(route_segments) = 2
    /\ route_segments[1].from # route_segments[1].to
    /\ route_segments[2].to # route_segments[1].from
    /\ route_segments[2].to # route_segments[2].from

\* C2: after loading, the sorted features are a permutation of the features
\* read, ascending by the order field, features with equal keys in read
\* order, and the coordinate list has the positions of the sorted features,
\* one for one and in the same order.
C2_StableSortedCoords ==
    Loaded =>
        /\ Len(stops_features) = NStops
        /\ \A k \in 1..NStops :
              Cardinality({j \in 1..NStops :
                              stops_features[j] = layer_features[k]}) = 1
        /\ \A a, b \in 1..NStops :
              a < b =>
                 /\ stops_features[a].attr.val <= stops_features[b].attr.val
                 /\ stops_features[a].attr = stops_features[b].attr
                       => stops_features[a].fid < stops_features[b].fid
        /\ Len(sorted_stops_coords) = NStops
        /\ \A k \in 1..NStops :
              sorted_stops_coords[k] = stops_features[k].point

\* Three stops, two of them with one key, read after a stop with a greater
\* key: the sort has to move features and has a tie to keep in read order.
C2_Witness ==
    /\ Loaded
    /\ NStops = 3
    /\ layer_features[1].attr.val > layer_features[2].attr.val
    /\ layer_features[2].attr = layer_features[3].attr
    /\ layer_features[2].point # layer_features[3].point
    /\ sorted_stops_coords[3] = layer_features[1].point

\* C3: the layers handed to the merge are the planner's segments: N-1 of
\* them, the k-th being the k-th answer of the path algorithm, none dropped,
\* repeated or moved; the merged and the published layer keep that order.
C3_MergeGetsPlannerSegments ==
    /\ merge_params # <<>> =>
          /\ Len(merge_params[1].LAYERS) = NStops - 1
          /\ merge_params[1].LAYERS = engine_answers
          /\ route_segments = engine_answers
          /\ \A k \in 1..Len(engine_answers) : engine_answers[k].call = k
    /\ merged_result # <<>> => merged_result[1].parts = engine_answers
    /\ \A k \in 1..Len(map_layers_added) :
          map_layers_added[k].parts = engine_answers

C3_Witness ==
    /\ map_layers_added # <<>>
    /\ Len(map_layers_added[1].parts) = 2
    /\ map_layers_added[1].parts[1].call = 1
    /\ map_layers_added[1].parts[2].call = 2

\* C4: when the path algorithm finds no path for segment k, the script ends
\* there: the failed request is the last one, the segments before it are all
\* that was collected, the merge is not called and no layer is added to the
\* project.
C4_FailFastOnNoPath ==
    err = "PathNotFound" =>
        /\ pc = "failed"
        /\ Len(requests) = Len(engine_answers) + 1
        /\ i = Len(engine_answers)
        /\ Len(route_segments) = i
        /\ trace[Len(trace)] = [ev |-> "request", n |-> i]
        /\ \A k \in 1..Len(trace) :
              /\ trace[k].ev = "request" => trace[k].n <= i
              /\ trace[k].ev \notin {"merge", "merged", "publish"}
        /\ merge_params = <<>>
        /\ merged_result = <<>>
        /\ map_layers_added = <<>>

\* No path between the second and the third stop: segment index 1.
C4_Witness ==
    /\ err = "PathNotFound"
    /\ NStops = 3
    /\ i = 1
    /\ Len(route_segments) = 1

\* C5: when the path algorithm finds no path for segment k, the exception
\* that ends the script names the segment index k.
C5_ErrorNamesSegment ==
    err = "PathNotFound" => err_segment = {Len(engine_answers)}

\* C6: a layer that yields no stop or one stop ends the script with the
\* fewer-than-two-stops exception, with no request issued, no merge called
\* and no layer added to the project.
C6_FewerThanTwoStops ==
    (features_read /\ NStops < 2) =>
        /\ pc \in {"sort", "extract", "check_count", "failed"}
        /\ pc = "failed" => err = "FewerThanTwoStops"
        /\ requests = <<>>
        /\ route_segments = <<>>
        /\ merge_params = <<>>
        /\ merged_result = <<>>
        /\ map_layers_added = <<>>

C6_Witness ==
    /\ pc = "failed"
    /\ err = "FewerThanTwoStops"
    /\ NStops = 1
    /\ Len(sorted_stops_coords) = 1

\* C7: when the order field is not in the schema of the stops layer, the
\* script ends with a configuration exception (the one naming the field,
\* once both layers are found) before a feature is read or sorted, and
\* issues no request, calls no merge and adds no layer.
C7_MissingOrderField ==
    (stops_layer # <<>> /\
     \A k \in 1..Len(stops_layer[1].fields) :
         stops_layer[1].fields[k] # order_field_name) =>
        /\ pc \in {"find_network", "check_field", "failed"}
        /\ pc = "failed" =>
              /\ err \in {"NetworkLayerNotFound", "OrderFieldNotFound"}
              /\ network_layer # <<>> =>
                    /\ err = "OrderFieldNotFound"
                    /\ err_name = <<order_field_name, stops_layer_name>>
        /\ ~features_read
        /\ layer_features = <<>>
        /\ stops_features = <<>>
        /\ trace = <<>>
        /\ requests = <<>>
        /\ merge_params = <<>>
        /\ map_layers_added = <<>>

C7_Witness ==
    /\ pc = "failed"
    /\ err = "OrderFieldNotFound"
    /\ stops_layer # <<>>
    /\ network_layer # <<>>

\* C8: when two order values cannot be compared, the script ends with the
\* sort exception, raised again after the diagnostic is printed; no
\* coordinates are extracted, no request issued, nothing merged or added.
C8_SortErrorReraised ==
    (features_read /\
     \E a, b \in 1..NStops :
         layer_features[a].attr.kind # layer_features[b].attr.kind) =>
        /\ pc \in {"sort", "failed"}
        /\ pc = "failed" =>
              /\ err = "SortError"
              /\ printed = <<[text |-> "Could not sort features", n |-> 0]>>
        /\ sorted_stops_coords = <<>>
        /\ requests = <<>>
        /\ route_segments = <<>>
        /\ merge_params = <<>>
        /\ merged_result = <<>>
        /\ map_layers_added = <<>>

C8_Witness ==
    /\ pc = "failed"
    /\ err = "SortError"
    /\ NStops >= 2
    /\ printed # <<>>

\* C9: whenever control is at the merge stage the segment list has N-1 >= 1
\* elements, and the message of the empty-segments branch is never printed.
C9_MergeStageHasSegments ==
    /\ AtMergeStage =>
          /\ Len(route_segments) >= 1
          /\ Len(route_segments) = NStops - 1
    /\ \A k \in 1..Len(printed) :
          printed[k].text # "No route segments were calculated"

C9_Witness ==
    /\ pc = "loop"
    /\ ~(i < Len(sorted_stops_coords) - 1)
    /\ Len(route_segments) = 1
    /\ NStops = 2

\* The order of the steps of a full run over n stops.
RECURSIVE RequestEvents(_)
RequestEvents(n) ==
    IF n < 2 THEN <<>>
    ELSE RequestEvents(n - 1) \o
            <<[ev |-> "request", n |-> n - 2], [ev |-> "segment", n |-> n - 2]>>

FullRun(n) ==
    <<[ev |-> "load", n |-> n], [ev |-> "sort", n |-> n]>> \o
    (IF n < 2 THEN <<>>
     ELSE RequestEvents(n) \o
             <<[ev |-> "merge", n |-> n - 1], [ev |-> "merged", n |-> n - 1],
               [ev |-> "publish", n |-> 1]>>)

\* C10: the steps of every run are a prefix of load, sort, request 0,
\* segment 0, ..., request N-2, segment N-2, merge, merged, publish: a
\* request follows the append of the previous segment, at most one request
\* is unanswered, the merge follows the last segment, and at most one layer
\* is added to the project, after the merge returned, under the fixed name.
C10_StagesInOrder ==
    /\ Len(trace) <= Len(FullRun(NStops))
    /\ trace = SubSeq(FullRun(NStops), 1, Len(trace))
    /\ Len(requests) - Len(route_segments) \in {0, 1}
    /\ (pc = "await") <=> (Len(requests) = Len(route_segments) + 1 /\ err = "")
    /\ merge_params # <<>> => Len(route_segments) = NStops - 1
    /\ Len(map_layers_added) <= 1
    /\ map_layers_added # <<>> =>
          /\ merged_result # <<>>
          /\ pc = "done"
          /\ map_layers_added[1].name = OutputName

C10_Witness ==
    /\ pc = "done"
    /\ NStops = 3
    /\ Len(trace) = 9
    /\ Len(map_layers_added) = 1

====
